---- MODULE Spec2Model ----
(***************************************************************************)
(* Model of the support chat page (src/pages/Home.tsx): the Home           *)
(* component's reactive state, its event handlers, the mount-time load     *)
(* effect, the save effect and the outbound agent call cycle.              *)
(*                                                                         *)
(* Strings are TLA+ strings (TLC evaluates Len, SubSeq and \o on them).    *)
(* A Date is modelled by its millisecond reading, an integer.              *)
(***************************************************************************)
EXTENDS Integers, Sequences, FiniteSets, TLC

VARIABLES
    conversations,          \* useState<Conversation[]>([])
    activeConversationId,   \* useState<string>('')
    inputValue,             \* useState('')
    isTyping,               \* useState(false)
    storage,                \* localStorage item 'support-conversations'
    calls,                  \* frames of handleSendMessage suspended at the await
    now,                    \* the clock reading returned by Date.now()
    seed,                   \* number of Math.random() draws made so far
    phase,                  \* "init" (before the mount effect), "ready", "crashed"
    searchQuery             \* useState('')

vars == <<conversations, activeConversationId, inputValue, isTyping,
          storage, calls, now, seed, phase, searchQuery>>

(***************************************************************************)
(* Bounds of the model.                                                    *)
(***************************************************************************)
MaxMessages == 5    \* messages over the whole list, replies awaited included
MaxClock == 2       \* last clock reading

(***************************************************************************)
(* Program constants.                                                      *)
(***************************************************************************)
TitleMax == 40
PreviewMax == 60
InputMax == 500

NewTitle == "New Conversation"
WelcomeContent == "Hi! I'm here to help. Ask me anything about our products and services."
WelcomePreview == "Hi! I'm here to help..."
GenericError == "Sorry, I encountered an error. Please try again."
ThrownError == "Sorry, something went wrong. Please try again."
QUICK_REPLIES == <<"Pricing", "How to get started", "Return policy", "Contact sales">>

(***************************************************************************)
(* Inputs: what the user may put in the text area, and what the remote     *)
(* agent may answer.                                                       *)
(***************************************************************************)
X10 == "xxxxxxxxxx"
X50 == X10 \o X10 \o X10 \o X10 \o X10
X500 == X50 \o X50 \o X50 \o X50 \o X50 \o X50 \o X50 \o X50 \o X50 \o X50
TextBlank == "  "
TextLong == "Could you tell me how the annual billing plan is renewed, please?"
TextPadded == " " \o TextLong \o "\n"
TextTooLong == X500 \o "x"

TypedTexts == {TextBlank, TextPadded, NewTitle, TextTooLong}

\* The quick reply chip the user may click: the first one; the chips differ
\* in their text only.
ClickedReplies == {1}

ResponseShort ==
    [status |-> "success",
     result |-> [answer |-> "We offer three plans.",
                 sources |-> <<"https://example.com/pricing">>,
                 confidence |-> 92,
                 suggested_followup |-> <<TextTooLong>>]]

\* What callAIAgent may settle with: a resolved NormalizedAgentResponse or a
\* rejection.  A field that is absent from the record is undefined in the code.
AgentOutcomes ==
    { [settle |-> "resolve", success |-> TRUE, response |-> ResponseShort],
      [settle |-> "resolve", success |-> TRUE],
      [settle |-> "resolve", success |-> FALSE, error |-> "Rate limit exceeded"],
      [settle |-> "resolve", success |-> FALSE],
      [settle |-> "reject"] }

(***************************************************************************)
(* String helpers.                                                         *)
(***************************************************************************)
IsSpace(c) == c \in {" ", "\n", "\t"}

\* String.prototype.trim
RECURSIVE TrimLeft(_)
TrimLeft(s) ==
    IF Len(s) > 0 /\ IsSpace(SubSeq(s, 1, 1))
    THEN TrimLeft(SubSeq(s, 2, Len(s)))
    ELSE s

RECURSIVE TrimRight(_)
TrimRight(s) ==
    IF Len(s) > 0 /\ IsSpace(SubSeq(s, Len(s), Len(s)))
    THEN TrimRight(SubSeq(s, 1, Len(s) - 1))
    ELSE s

Trim(s) == TrimRight(TrimLeft(s))

\* s.slice(0, n)
Slice(s, n) == IF Len(s) <= n THEN s ELSE SubSeq(s, 1, n)

\* s.slice(0, n) + (s.length > n ? '...' : '')
Ellipsize(s, n) == Slice(s, n) \o (IF Len(s) > n THEN "..." ELSE "")

(***************************************************************************)
(* Storage: the item is absent, or a text.  A text that JSON.parse accepts *)
(* is modelled by the value it parses to.                                  *)
(***************************************************************************)
\* Date.prototype.toISOString, as JSON.stringify applies it to a Date
ToISO(t) == "iso:" \o ToString(t)

\* new Date(isoString)
FromISO(s) == CHOOSE t \in 0..(MaxClock + 1) : ToISO(t) = s

StringifyMessage(m) == [m EXCEPT !.timestamp = ToISO(@)]

StringifyConversation(c) ==
    [c EXCEPT !.timestamp = ToISO(@),
              !.messages = [i \in DOMAIN @ |-> StringifyMessage(@[i])]]

\* JSON.stringify(conversations), as the text's parsed value
Stringify(convs) ==
    [t |-> "arr", v |-> [i \in DOMAIN convs |-> StringifyConversation(convs[i])]]

(***************************************************************************)
(* Messages and conversations.                                             *)
(***************************************************************************)
\* createNewConversation(): the id draws Date.now() and Math.random(); the
\* draws of Math.random() are taken to be pairwise distinct.
createNewConversation ==
    [id |-> "conv-" \o ToString(now) \o "-r" \o ToString(seed),
     title |-> NewTitle,
     preview |-> WelcomePreview,
     timestamp |-> now,
     messages |-> << [id |-> "msg-" \o ToString(now),
                      role |-> "agent",
                      content |-> WelcomeContent,
                      timestamp |-> now] >>]

\* The title addMessageToConversation gives conv when message is appended.
TitleAfter(conv, message) ==
    IF message.role = "user" /\ conv.title = NewTitle
    THEN Ellipsize(message.content, TitleMax)
    ELSE conv.title

\* Mutant of PreviewAfter: the ellipsis is left out.
M9_PreviewAfter(message) == Slice(message.content, PreviewMax)

\* The preview addMessageToConversation gives a conversation on an append.
PreviewAfter(message) == Ellipsize(message.content, PreviewMax)

\* Mutant of AppendTo: the new message replaces the messages.
M14_AppendTo(conv, message) ==
    [conv EXCEPT !.messages = <<message>>,
                 !.title = TitleAfter(conv, message),
                 !.preview = PreviewAfter(message),
                 !.timestamp = now]

\* The value of conv after addMessageToConversation appended message to it.
AppendTo(conv, message) ==
    [conv EXCEPT !.messages = Append(@, message),
                 !.title = TitleAfter(conv, message),
                 !.preview = PreviewAfter(message),
                 !.timestamp = now]

\* addMessageToConversation: the updater handed to setConversations
addMessageToConversation(convs, conversationId, message) ==
    [i \in DOMAIN convs |->
        IF convs[i].id = conversationId THEN AppendTo(convs[i], message)
        ELSE convs[i]]

\* Mutant of SaveEffect: a list of one conversation is not written.
M13_SaveEffect(convs) == IF Len(convs) > 1 THEN Stringify(convs) ELSE storage

\* The save effect: what the item holds after a render with the list convs.
SaveEffect(convs) == IF Len(convs) > 0 THEN Stringify(convs) ELSE storage

(***************************************************************************)
(* The mount effect: load from storage.                                    *)
(***************************************************************************)
\* `if (stored)`: null and the empty text are falsy
Truthy(item) == item.t \notin {"absent", "blank"}

\* JSON.parse(stored) returns (it throws a SyntaxError otherwise)
Parses(item) == item.t # "garbage"

\* conv.messages.map(...) does not throw on this element of the parsed list
Revivable(conv) == "messages" \in DOMAIN conv /\ "timestamp" \in DOMAIN conv

ReviveMessage(m) == [m EXCEPT !.timestamp = FromISO(@)]

\* Mutant of ReviveConversation: the messages are given the conversation's
\* timestamp (conv.timestamp is revived where msg.timestamp is meant).
M12_ReviveConversation(c) ==
    [c EXCEPT !.timestamp = FromISO(@),
              !.messages = [i \in DOMAIN @ |->
                               [@[i] EXCEPT !.timestamp = FromISO(c.timestamp)]]]

ReviveConversation(c) ==
    [c EXCEPT !.timestamp = FromISO(@),
              !.messages = [i \in DOMAIN @ |-> ReviveMessage(@[i])]]

\* The try block runs to its end: the text parses, the value has a map
\* method (it is a list) and every element has a message list.
TryLoads(item) ==
    /\ Parses(item)
    /\ item.t = "arr"
    /\ \A i \in DOMAIN item.v : Revivable(item.v[i])

\* conversationsWithDates
Loaded(item) == [i \in DOMAIN item.v |-> ReviveConversation(item.v[i])]

\* The second JSON.parse(stored).length, outside the try block, throws: a
\* SyntaxError on a text that does not parse, a TypeError on null.
LengthThrows(item) == Truthy(item) /\ (~Parses(item) \/ item.t = "null")

\* JSON.parse(stored).length === 0
LengthIsZero(item) ==
    CASE item.t = "arr" -> Len(item.v) = 0
      [] item.t = "str" -> Len(item.v) = 0
      [] item.t = "obj" -> "length" \in DOMAIN item.f /\ item.f.length = 0
      [] OTHER -> FALSE

\* Mutant of NeedsInitial: the empty list is not looked for.
M11_NeedsInitial(item) == item.t \in {"absent", "blank"}

\* `!stored || JSON.parse(stored).length === 0`
NeedsInitial(item) == ~Truthy(item) \/ LengthIsZero(item)

LoadEffect ==
    /\ phase = "init"
    /\ IF LengthThrows(storage)
       THEN \* the exception leaves the effect: nothing catches it
            /\ phase' = "crashed"
            /\ UNCHANGED <<searchQuery, conversations, activeConversationId, storage, seed>>
       ELSE /\ phase' = "ready"
            /\ IF NeedsInitial(storage)
               THEN /\ conversations' = <<createNewConversation>>
                    /\ activeConversationId' = createNewConversation.id
                    /\ seed' = seed + 1
               ELSE /\ conversations' =
                          IF Truthy(storage) /\ TryLoads(storage)
                          THEN Loaded(storage) ELSE <<>>
                    /\ activeConversationId' =
                          IF Truthy(storage) /\ TryLoads(storage)
                             /\ Len(storage.v) > 0
                          THEN Loaded(storage)[1].id ELSE ""
                    /\ seed' = seed
            /\ storage' = SaveEffect(conversations')
    /\ UNCHANGED <<searchQuery, inputValue, isTyping, calls, now>>

(***************************************************************************)
(* The agent request cycle.                                                *)
(***************************************************************************)
RECURSIVE MessageCount(_)
MessageCount(convs) ==
    IF convs = <<>> THEN 0
    ELSE Len(Head(convs).messages) + MessageCount(Tail(convs))

\* Room left for n more messages once every awaited reply has arrived.
HasRoom(n) == MessageCount(conversations) + Len(calls) + n <= MaxMessages

\* Mutant of TextToSend: the text area's content is taken untrimmed.
M5_TextToSend(messageText) ==
    IF messageText # "" THEN messageText ELSE inputValue

\* const textToSend = messageText || inputValue.trim()
\* (a call without argument is modelled by the empty text: both are falsy)
TextToSend(messageText) ==
    IF messageText # "" THEN messageText ELSE Trim(inputValue)

\* Mutant of Rejected: the check of the active conversation is missing.
M4_Rejected(messageText) ==
    IF messageText # "" THEN FALSE ELSE Trim(inputValue) = ""

\* if (!textToSend || !activeConversationId) return
Rejected(messageText) ==
    TextToSend(messageText) = "" \/ activeConversationId = ""

UserMessage(text) ==
    [id |-> "msg-" \o ToString(now) \o "-user",
     role |-> "user",
     content |-> text,
     timestamp |-> now]

\* The frame of handleSendMessage while it is suspended at the await: its
\* parameter, the values it closed over and its local.
Frame(messageText) ==
    [messageText |-> messageText,
     inputValue |-> inputValue,
     activeConversationId |-> activeConversationId,
     textToSend |-> TextToSend(messageText)]

\* handleSendMessage, up to the await
handleSendMessage(messageText) ==
    IF Rejected(messageText)
    THEN UNCHANGED vars
    ELSE /\ HasRoom(2)
         /\ conversations' =
                addMessageToConversation(conversations, activeConversationId,
                                         UserMessage(TextToSend(messageText)))
         /\ inputValue' = ""
         /\ isTyping' = TRUE
         /\ calls' = Append(calls, Frame(messageText))
         /\ storage' = SaveEffect(conversations')
         /\ UNCHANGED <<searchQuery, activeConversationId, now, seed, phase>>

\* result.success && result.response
IsSuccess(o) == o.settle = "resolve" /\ o.success /\ "response" \in DOMAIN o

\* Mutant of ErrorText: the error string of the payload is not used.
M18_ErrorText(o) == GenericError

\* result.error || 'Sorry, I encountered an error. Please try again.'
ErrorText(o) ==
    IF "error" \in DOMAIN o /\ o.error # "" THEN o.error ELSE GenericError

\* Mutant of ReplyMessage: the sources of the response are not carried over.
M6_ReplyMessage(o) ==
    IF o.settle = "resolve" /\ o.success /\ "response" \in DOMAIN o
    THEN [id |-> "msg-" \o ToString(now) \o "-agent",
          role |-> "agent",
          content |-> o.response.result.answer,
          timestamp |-> now,
          confidence |-> o.response.result.confidence,
          sources |-> <<>>,
          suggested_followup |-> o.response.result.suggested_followup]
    ELSE [id |-> "msg-" \o ToString(now) \o "-agent",
          role |-> "agent",
          content |-> IF o.settle = "resolve"
                      THEN (IF "error" \in DOMAIN o /\ o.error # ""
                            THEN o.error ELSE GenericError)
                      ELSE ThrownError,
          timestamp |-> now]

\* The message handleSendMessage builds once the call has settled with o.
ReplyMessage(o) ==
    IF IsSuccess(o)
    THEN [id |-> "msg-" \o ToString(now) \o "-agent",
          role |-> "agent",
          content |-> o.response.result.answer,
          timestamp |-> now,
          confidence |-> o.response.result.confidence,
          sources |-> o.response.result.sources,
          suggested_followup |-> o.response.result.suggested_followup]
    ELSE [id |-> "msg-" \o ToString(now) \o "-agent",
          role |-> "agent",
          content |-> IF o.settle = "resolve" THEN ErrorText(o) ELSE ThrownError,
          timestamp |-> now]

\* Mutant of TypingAfter: the flag is cleared in the success branch only.
M3_TypingAfter(o) ==
    IF o.settle = "resolve" /\ o.success /\ "response" \in DOMAIN o
    THEN FALSE ELSE isTyping

\* The value of isTyping once the try statement of handleSendMessage is
\* left with outcome o (the finally block).
TypingAfter(o) == FALSE

RemoveAt(s, i) == SubSeq(s, 1, i - 1) \o SubSeq(s, i + 1, Len(s))

\* Mutant of Settle: there is no catch block, so that a rejected call appends
\* nothing (the finally block still clears the flag).
M7_Settle(i, o) ==
    /\ phase = "ready"
    /\ i \in DOMAIN calls
    /\ conversations' =
           IF o.settle = "reject" THEN conversations
           ELSE addMessageToConversation(conversations,
                                         calls[i].activeConversationId,
                                         ReplyMessage(o))
    /\ isTyping' = FALSE
    /\ calls' = RemoveAt(calls, i)
    /\ storage' = SaveEffect(conversations')
    /\ UNCHANGED <<searchQuery, activeConversationId, inputValue, now, seed, phase>>

\* Mutant of Settle: the reply goes to the conversation that is active when
\* the call settles.
M19_Settle(i, o) ==
    /\ phase = "ready"
    /\ i \in DOMAIN calls
    /\ conversations' =
           addMessageToConversation(conversations, activeConversationId,
                                    ReplyMessage(o))
    /\ isTyping' = FALSE
    /\ calls' = RemoveAt(calls, i)
    /\ storage' = SaveEffect(conversations')
    /\ UNCHANGED <<searchQuery, activeConversationId, inputValue, now, seed, phase>>

\* Mutant of Settle: a failure payload is dropped without a message.
M20_Settle(i, o) ==
    /\ phase = "ready"
    /\ i \in DOMAIN calls
    /\ conversations' =
           IF o.settle = "resolve" /\ ~IsSuccess(o) THEN conversations
           ELSE addMessageToConversation(conversations,
                                         calls[i].activeConversationId,
                                         ReplyMessage(o))
    /\ isTyping' = FALSE
    /\ calls' = RemoveAt(calls, i)
    /\ storage' = SaveEffect(conversations')
    /\ UNCHANGED <<searchQuery, activeConversationId, inputValue, now, seed, phase>>

\* handleSendMessage, from the await on: call i settles with outcome o
Settle(i, o) ==
    /\ phase = "ready"
    /\ i \in DOMAIN calls
    /\ conversations' =
           addMessageToConversation(conversations, calls[i].activeConversationId,
                                    ReplyMessage(o))
    /\ isTyping' = TypingAfter(o)
    /\ calls' = RemoveAt(calls, i)
    /\ storage' = SaveEffect(conversations')
    /\ UNCHANGED <<searchQuery, activeConversationId, inputValue, now, seed, phase>>

(***************************************************************************)
(* User events.                                                            *)
(***************************************************************************)
\* textarea onChange
ChangeInput(v) ==
    /\ phase = "ready"
    /\ inputValue' = IF Len(v) <= InputMax THEN v ELSE inputValue
    /\ UNCHANGED <<searchQuery, conversations, activeConversationId, isTyping, storage,
                   calls, now, seed, phase>>

\* disabled={!inputValue.trim() || isTyping}
SendDisabled == Trim(inputValue) = "" \/ isTyping

\* Send button onClick
ClickSend ==
    /\ phase = "ready"
    /\ ~SendDisabled
    /\ handleSendMessage("")

\* handleKeyDown with key 'Enter' and no shift
PressEnter ==
    /\ phase = "ready"
    /\ handleSendMessage("")

\* activeConversation?.messages.length === 1 && !isTyping
QuickRepliesShown ==
    /\ ~isTyping
    /\ \E i \in DOMAIN conversations :
          /\ conversations[i].id = activeConversationId
          /\ \A j \in 1..(i - 1) : conversations[j].id # activeConversationId
          /\ Len(conversations[i].messages) = 1

\* quick reply chip onClick
ClickQuickReply(k) ==
    /\ phase = "ready"
    /\ QuickRepliesShown
    /\ handleSendMessage(QUICK_REPLIES[k])

\* Mutant of NewChat: the new conversation is put at the end of the list.
M15_NewChat ==
    /\ phase = "ready"
    /\ HasRoom(1)
    /\ conversations' = Append(conversations, createNewConversation)
    /\ activeConversationId' = createNewConversation.id
    /\ seed' = seed + 1
    /\ storage' = SaveEffect(conversations')
    /\ UNCHANGED <<searchQuery, inputValue, isTyping, calls, now, phase>>

\* const activeConversation = conversations.find(c => c.id === activeConversationId)
\* (the index of the conversation shown; 0 when there is none)
ActiveIndex ==
    IF \E i \in DOMAIN conversations : conversations[i].id = activeConversationId
    THEN CHOOSE i \in DOMAIN conversations :
            /\ conversations[i].id = activeConversationId
            /\ \A j \in 1..(i - 1) : conversations[j].id # activeConversationId
    ELSE 0

\* The follow-up chips of message j of the conversation shown.
FollowupsOf(j) ==
    IF /\ ActiveIndex # 0
       /\ j \in DOMAIN conversations[ActiveIndex].messages
       /\ conversations[ActiveIndex].messages[j].role = "agent"
       /\ "suggested_followup" \in DOMAIN conversations[ActiveIndex].messages[j]
    THEN conversations[ActiveIndex].messages[j].suggested_followup
    ELSE <<>>

\* handleSuggestedQuestion: setInputValue(e.detail)
SuggestedInput(question) == question

\* A follow-up chip's onClick dispatches 'send-suggested-question' with the
\* question, and the listener handleSuggestedQuestion runs.
ClickFollowup(j, k) ==
    /\ phase = "ready"
    /\ k \in DOMAIN FollowupsOf(j)
    /\ inputValue' = SuggestedInput(FollowupsOf(j)[k])
    /\ UNCHANGED <<searchQuery, conversations, activeConversationId, isTyping, storage,
                   calls, now, seed, phase>>

\* handleNewConversation
NewChat ==
    /\ phase = "ready"
    /\ HasRoom(1)
    /\ conversations' = <<createNewConversation>> \o conversations
    /\ activeConversationId' = createNewConversation.id
    /\ seed' = seed + 1
    /\ storage' = SaveEffect(conversations')
    /\ UNCHANGED <<searchQuery, inputValue, isTyping, calls, now, phase>>

\* String.prototype.toLowerCase, on the letters A to Z
UpperLetters == "ABCDEFGHIJKLMNOPQRSTUVWXYZ"
LowerLetters == "abcdefghijklmnopqrstuvwxyz"

LowerChar(c) ==
    IF \E n \in 1..Len(UpperLetters) : SubSeq(UpperLetters, n, n) = c
    THEN LET n == CHOOSE n \in 1..Len(UpperLetters) : SubSeq(UpperLetters, n, n) = c
         IN SubSeq(LowerLetters, n, n)
    ELSE c

RECURSIVE ToLowerCase(_)
ToLowerCase(s) ==
    IF Len(s) = 0 THEN ""
    ELSE LowerChar(SubSeq(s, 1, 1)) \o ToLowerCase(SubSeq(s, 2, Len(s)))

\* hay.includes(needle)
Includes(hay, needle) ==
    \/ Len(needle) = 0
    \/ \E off \in 0..(Len(hay) - Len(needle)) :
          SubSeq(hay, off + 1, off + Len(needle)) = needle

\* Mutant of Shown: the search text is not lower-cased.
M17_Shown(conv) ==
    \/ Includes(ToLowerCase(conv.title), searchQuery)
    \/ Includes(ToLowerCase(conv.preview), searchQuery)

\* The predicate of filteredConversations
Shown(conv) ==
    \/ Includes(ToLowerCase(conv.title), ToLowerCase(searchQuery))
    \/ Includes(ToLowerCase(conv.preview), ToLowerCase(searchQuery))

\* const filteredConversations = conversations.filter(...)
filteredConversations == SelectSeq(conversations, Shown)

\* Search input onChange
ChangeSearch(q) ==
    /\ phase = "ready"
    /\ searchQuery' = q
    /\ UNCHANGED <<conversations, activeConversationId, inputValue, isTyping,
                   storage, calls, now, seed, phase>>

\* ConversationItem onClick
SelectConversation(i) ==
    /\ phase = "ready"
    /\ i \in DOMAIN filteredConversations
    /\ activeConversationId' = filteredConversations[i].id
    /\ UNCHANGED <<searchQuery, conversations, inputValue, isTyping, storage, calls, now,
                   seed, phase>>

\* Time passes (the mount effect runs at the first clock reading).
Tick ==
    /\ phase = "ready"
    /\ now < MaxClock
    /\ now' = now + 1
    /\ UNCHANGED <<searchQuery, conversations, activeConversationId, inputValue, isTyping,
                   storage, calls, seed, phase>>

(***************************************************************************)
(* Initial states and the specification.                                   *)
(***************************************************************************)
\* A conversation an earlier session of the page saved.
SavedConversation ==
    [id |-> "conv-0-old",
     title |-> "Pricing",
     preview |-> "We offer three plans.",
     timestamp |-> 0,
     messages |-> << [id |-> "msg-0", role |-> "agent",
                      content |-> WelcomeContent, timestamp |-> 0],
                     [id |-> "msg-0-user", role |-> "user",
                      content |-> "Pricing", timestamp |-> 0],
                     [id |-> "msg-0-agent", role |-> "agent",
                      content |-> "We offer three plans.", timestamp |-> 0,
                      confidence |-> 92,
                      sources |-> <<"https://example.com/pricing">>,
                      suggested_followup |-> <<"What is included?">>] >>]

\* What the item may hold when the page is opened.
StoredItems ==
    { [t |-> "absent"],                         \* no item
      [t |-> "blank"],                          \* the empty text
      [t |-> "garbage"],                        \* '{oops'
      [t |-> "null"],                           \* 'null'
      [t |-> "str", v |-> ""],                  \* '""'
      [t |-> "obj", f |-> [theme |-> "dark"]],  \* '{"theme":"dark"}'
      [t |-> "arr", v |-> <<>>],                \* '[]'
      [t |-> "arr", v |-> <<[id |-> "conv-0-old"]>>],  \* '[{"id":"conv-0-old"}]'
      Stringify(<<SavedConversation>>) }

Init ==
    /\ conversations = <<>>
    /\ activeConversationId = ""
    /\ inputValue = ""
    /\ isTyping = FALSE
    /\ storage \in StoredItems
    /\ calls = <<>>
    /\ now = 1
    /\ seed = 0
    /\ phase = "init"
    /\ searchQuery = ""

\* The search text only narrows the conversations that can be selected:
\* Next leaves it empty, so that every conversation can be; SearchSpec
\* below varies it.
Next ==
    \/ LoadEffect
    \/ \E v \in TypedTexts : ChangeInput(v)
    \/ ClickSend
    \/ PressEnter
    \/ \E k \in ClickedReplies : ClickQuickReply(k)
    \/ \E i \in DOMAIN calls, o \in AgentOutcomes : Settle(i, o)
    \/ NewChat
    \/ \E i \in DOMAIN conversations : SelectConversation(i)
    \/ \E j \in 1..MaxMessages, k \in DOMAIN ResponseShort.result.suggested_followup :
          ClickFollowup(j, k)
    \/ Tick

Spec == Init /\ [][Next]_vars

\* What the user may type in the search field.
SearchTexts == {"", "PRICING", "help", "zzz"}

\* The sidebar: searching and selecting, over lists made by startup, New
\* Chat, quick replies and their answers.
SearchNext ==
    \/ LoadEffect
    \/ \E q \in SearchTexts : ChangeSearch(q)
    \/ \E i \in DOMAIN conversations : SelectConversation(i)
    \/ NewChat
    \/ \E k \in ClickedReplies : ClickQuickReply(k)
    \/ \E i \in DOMAIN calls, o \in AgentOutcomes : Settle(i, o)

SearchSpec == Init /\ [][SearchNext]_vars

\* The agent call settles whenever the external service responds: every
\* pending call is eventually settled.
FairSpec == Spec /\ WF_vars(\E i \in DOMAIN calls, o \in AgentOutcomes : Settle(i, o))

(***************************************************************************)
(* Helpers of the properties.                                              *)
(***************************************************************************)
Last(s) == s[Len(s)]

\* The conversations with identifier id (there is one: identifiers are distinct).
WithId(id) == {i \in DOMAIN conversations : conversations[i].id = id}

UserIndexes(conv) == {j \in DOMAIN conv.messages : conv.messages[j].role = "user"}

FirstUserMessage(conv) ==
    conv.messages[CHOOSE j \in UserIndexes(conv) : \A k \in UserIndexes(conv) : j <= k]

\* The text a suspended submit was made with: the quick reply clicked, or
\* the content of the text area.
SubmittedText(f) == IF f.messageText # "" THEN f.messageText ELSE f.inputValue

\* Conversation i received exactly the message m at its end in this step, and
\* every other conversation kept its messages.
AppendedExactly(i, m) ==
    /\ DOMAIN conversations' = DOMAIN conversations
    /\ conversations'[i].messages = Append(conversations[i].messages, m)
    /\ \A k \in DOMAIN conversations :
          k # i => conversations'[k].messages = conversations[k].messages

(***************************************************************************)
(* C1. At most one agent call is in flight: the number of calls started    *)
(* and not yet settled is 0 or 1 in every reachable state.                 *)
(***************************************************************************)
C1_AtMostOneCallInFlight == Len(calls) <= 1

(***************************************************************************)
(* C2. The loading flag never clears while a call is pending: when         *)
(* isTyping is false, no call started by handleSendMessage is unsettled.   *)
(***************************************************************************)
C2_FlagCoversPendingCalls == ~isTyping => calls = <<>>

(***************************************************************************)
(* C3. The loading flag eventually returns to false after every accepted   *)
(* submit, whatever the outcome of the call, provided the call settles;    *)
(* and it is never set once all calls have settled.                        *)
(***************************************************************************)
C3_FlagEventuallyClears ==
    /\ [](isTyping => calls # <<>>)
    /\ (isTyping ~> ~isTyping)

\* A call was rejected, every call has settled and the flag is clear.
C3_Witness ==
    /\ calls = <<>>
    /\ ~isTyping
    /\ \E i \in DOMAIN conversations :
          Last(conversations[i].messages).content = ThrownError

(***************************************************************************)
(* C4. A submit with an empty or whitespace-only text, or without an       *)
(* active conversation, is a no-op.  Where only such submits are possible  *)
(* (no active conversation; or a blank text area and no quick reply        *)
(* shown) no step starts a call, appends a user message, sets the loading  *)
(* flag or clears the text area.                                           *)
(***************************************************************************)
C4_OnlyRejectedSubmits ==
    /\ phase = "ready"
    /\ \/ activeConversationId = ""
       \/ Trim(inputValue) = "" /\ ~QuickRepliesShown

UserMessageTotal(convs) ==
    Cardinality({ij \in (DOMAIN convs) \X (1..(MaxMessages + 1)) :
                    /\ ij[2] \in DOMAIN convs[ij[1]].messages
                    /\ convs[ij[1]].messages[ij[2]].role = "user"})

C4_RejectedSubmitIsNoOp ==
    [][C4_OnlyRejectedSubmits =>
          /\ Len(calls') <= Len(calls)
          /\ UserMessageTotal(conversations') = UserMessageTotal(conversations)
          /\ (isTyping' => isTyping)
          /\ (inputValue' = "" => inputValue = "")]_vars

\* Text is waiting in the text area and there is no active conversation:
\* Enter is rejected there.
C4_Witness ==
    /\ phase = "ready"
    /\ activeConversationId = ""
    /\ Trim(inputValue) # ""
    /\ calls = <<>>

(***************************************************************************)
(* C5. For every submit, a user message whose content is exactly the       *)
(* submitted text is in the conversation before the call of that submit    *)
(* completes.                                                              *)
(***************************************************************************)
C5_UserMessageIsExactText ==
    \A n \in DOMAIN calls :
       \E i \in WithId(calls[n].activeConversationId) :
          \E j \in UserIndexes(conversations[i]) :
             conversations[i].messages[j].content = SubmittedText(calls[n])

(***************************************************************************)
(* C5, amended.  For every submit, a user message whose content is the     *)
(* submitted text without its leading and trailing whitespace (the quick   *)
(* reply's text unchanged) is in the conversation while the call of that   *)
(* submit is pending, and the reply of the call is appended after it.      *)
(***************************************************************************)
C5_TrimmedText(f) ==
    IF f.messageText # "" THEN f.messageText ELSE Trim(f.inputValue)

C5_UserMessageIsTrimmedText ==
    /\ [](\A n \in DOMAIN calls :
            \E i \in WithId(calls[n].activeConversationId) :
               \E j \in UserIndexes(conversations[i]) :
                  conversations[i].messages[j].content = C5_TrimmedText(calls[n]))
    /\ [][\A n \in DOMAIN calls, o \in AgentOutcomes :
            Settle(n, o) =>
               \E i \in WithId(calls[n].activeConversationId) :
                  \E j \in UserIndexes(conversations[i]) :
                     /\ conversations[i].messages[j].content = C5_TrimmedText(calls[n])
                     /\ conversations'[i].messages[j] = conversations[i].messages[j]
                     /\ j < Len(conversations'[i].messages)
                     /\ Last(conversations'[i].messages) = ReplyMessage(o)]_vars

\* A call is pending for a typed text that had surrounding whitespace.
C5_Witness ==
    \E n \in DOMAIN calls :
       /\ calls[n].messageText = ""
       /\ calls[n].inputValue = TextPadded
       /\ Last(conversations[CHOOSE i \in WithId(calls[n].activeConversationId) : TRUE]
                  .messages).content = TextLong

(***************************************************************************)
(* C6. A call that resolves with a success result appends exactly one      *)
(* agent message, whose content, confidence, sources and follow-ups are    *)
(* the response's answer, confidence, sources and follow-ups.              *)
(***************************************************************************)
C6_SuccessAppendsAnswer ==
    [][\A n \in DOMAIN calls, o \in AgentOutcomes :
          IsSuccess(o) /\ Settle(n, o) =>
             \E i \in WithId(calls[n].activeConversationId) :
                \E m \in {Last(conversations'[i].messages)} :
                   /\ AppendedExactly(i, m)
                   /\ m.role = "agent"
                   /\ m.content = o.response.result.answer
                   /\ m.confidence = o.response.result.confidence
                   /\ m.sources = o.response.result.sources
                   /\ m.suggested_followup = o.response.result.suggested_followup]_vars

\* A conversation ends with the agent message of a successful response.
C6_Witness ==
    \E i \in DOMAIN conversations :
       /\ Len(conversations[i].messages) > 1
       /\ conversations[i].timestamp > 0
       /\ Last(conversations[i].messages).role = "agent"
       /\ "sources" \in DOMAIN Last(conversations[i].messages)
       /\ Last(conversations[i].messages).sources = ResponseShort.result.sources

(***************************************************************************)
(* C7. A failed call (a failure payload, or a rejection) appends exactly   *)
(* one fallback agent message, and the loading flag is false afterwards.   *)
(***************************************************************************)
C7_FailureAppendsFallback ==
    [][\A n \in DOMAIN calls, o \in AgentOutcomes :
          ~IsSuccess(o) /\ Settle(n, o) =>
             /\ ~isTyping'
             /\ \E i \in WithId(calls[n].activeConversationId) :
                   \E m \in {Last(conversations'[i].messages)} :
                      /\ AppendedExactly(i, m)
                      /\ m.role = "agent"
                      /\ DOMAIN m = {"id", "role", "content", "timestamp"}
                      /\ m.content \in {GenericError, ThrownError, "Rate limit exceeded"}]_vars

\* A conversation ends with a fallback message and the flag is clear.
C7_Witness ==
    /\ ~isTyping
    /\ \E i \in DOMAIN conversations :
          Last(conversations[i].messages).content \in {GenericError, "Rate limit exceeded"}

(***************************************************************************)
(* C8. The title of a conversation that holds a user message is its first  *)
(* user message truncated to 40 characters ('...' appended when longer);   *)
(* later messages never change it.                                         *)
(***************************************************************************)
C8_TitleIsFirstUserMessage ==
    \A i \in DOMAIN conversations :
       UserIndexes(conversations[i]) # {} =>
          conversations[i].title =
             Ellipsize(FirstUserMessage(conversations[i]).content, TitleMax)

(***************************************************************************)
(* C9. Each conversation's preview is its last message's content           *)
(* truncated to 60 characters (with or without the ellipsis), a freshly    *)
(* created conversation included.                                          *)
(***************************************************************************)
C9_PreviewIsLastMessage ==
    \A i \in DOMAIN conversations :
       conversations[i].preview \in
          { Slice(Last(conversations[i].messages).content, PreviewMax),
            Ellipsize(Last(conversations[i].messages).content, PreviewMax) }

(***************************************************************************)
(* C9, amended.  Once a message has been appended to a conversation, its   *)
(* preview is its last message's content truncated to 60 characters, with  *)
(* '...' appended when the content is longer; a freshly created            *)
(* conversation, which holds only the welcome message, has the fixed       *)
(* preview "Hi! I'm here to help...".                                      *)
(***************************************************************************)
C9_PreviewAfterAppend ==
    \A i \in DOMAIN conversations :
       conversations[i].preview =
          IF Len(conversations[i].messages) = 1 THEN WelcomePreview
          ELSE Ellipsize(Last(conversations[i].messages).content, PreviewMax)

\* A conversation ends with a message longer than 60 characters.
C9_Witness ==
    \E i \in DOMAIN conversations :
       /\ Len(conversations[i].messages) > 1
       /\ Len(Last(conversations[i].messages).content) > PreviewMax
       /\ Len(conversations[i].preview) = PreviewMax + 3

(***************************************************************************)
(* C10. When the stored item is malformed on load (it does not parse, or   *)
(* it is not a list of conversations with message lists), startup ends     *)
(* with a freshly created conversation in the list, which is active:       *)
(* never with an empty list or an uncaught exception.                      *)
(***************************************************************************)
C10_Malformed(item) == Truthy(item) /\ ~TryLoads(item)

C10_MalformedLoadFallsBack ==
    [][phase = "init" /\ C10_Malformed(storage) =>
          /\ phase' = "ready"
          /\ Len(conversations') = 1
          /\ conversations'[1].messages[1].content = WelcomeContent
          /\ Len(conversations'[1].messages) = 1
          /\ activeConversationId' = conversations'[1].id]_vars


(***************************************************************************)
(* C11. At startup, when storage holds no conversations (the item is       *)
(* absent or holds an empty list), the list afterwards holds exactly one   *)
(* conversation, which holds only the agent welcome message and is active. *)
(***************************************************************************)
C11_NoConversations(item) ==
    item.t = "absent" \/ (item.t = "arr" /\ Len(item.v) = 0)

C11_StartupCreatesWelcome ==
    [][phase = "init" /\ C11_NoConversations(storage) =>
          /\ phase' = "ready"
          /\ Len(conversations') = 1
          /\ Len(conversations'[1].messages) = 1
          /\ conversations'[1].messages[1].role = "agent"
          /\ conversations'[1].messages[1].content = WelcomeContent
          /\ activeConversationId' = conversations'[1].id]_vars

\* Startup has ended with the welcome conversation alone, active and saved.
C11_Witness ==
    /\ phase = "ready"
    /\ Len(conversations) = 1
    /\ conversations[1].messages = createNewConversation.messages
    /\ activeConversationId = conversations[1].id
    /\ seed = 1
    /\ now = 1


C13_StorageMirrorsList ==
    phase = "ready" /\ conversations # <<>> => storage = Stringify(conversations)

\* A new conversation was created and a reply appended; the item holds both.
C13_Witness ==
    /\ Len(conversations) = 2
    /\ storage.t = "arr"
    /\ Len(storage.v) = 2
    /\ \E i \in DOMAIN storage.v :
          /\ Len(storage.v[i].messages) = 3
          /\ Last(storage.v[i].messages).timestamp = ToISO(now)

(***************************************************************************)
(* C14. Messages are immutable and conversations append-only: in every     *)
(* step, each conversation of the list is still in the list and its        *)
(* earlier message sequence is a prefix of its later one.                  *)
(***************************************************************************)
IsPrefix(s, t) == Len(s) <= Len(t) /\ SubSeq(t, 1, Len(s)) = s

C14_AppendOnly ==
    [][\A i \in DOMAIN conversations :
          \E k \in DOMAIN conversations' :
             /\ conversations'[k].id = conversations[i].id
             /\ IsPrefix(conversations[i].messages, conversations'[k].messages)]_vars

\* A conversation has grown by a user message and a reply.
C14_Witness ==
    \E i \in DOMAIN conversations :
       /\ conversations[i].timestamp > 0
       /\ Len(conversations[i].messages) >= 3
       /\ conversations[i].messages[2].role = "user"
       /\ conversations[i].messages[3].role = "agent"

(***************************************************************************)
(* C15. New Chat adds exactly one conversation, at the front of the list,  *)
(* holding exactly the agent welcome message, and makes it active; the     *)
(* conversations that existed and their order are unchanged.               *)
(***************************************************************************)
C15_NewChatPrepends ==
    [][phase = "ready" /\ Len(conversations') # Len(conversations) =>
          /\ Len(conversations') = Len(conversations) + 1
          /\ Len(conversations'[1].messages) = 1
          /\ conversations'[1].messages[1].role = "agent"
          /\ conversations'[1].messages[1].content = WelcomeContent
          /\ activeConversationId' = conversations'[1].id
          /\ \A i \in DOMAIN conversations :
                /\ conversations'[i + 1] = conversations[i]
                /\ conversations[i].id # conversations'[1].id]_vars

\* New Chat was clicked with a conversation in the list: the new one is
\* first and active, the earlier one second.
C15_Witness ==
    /\ Len(conversations) = 2
    /\ activeConversationId = conversations[1].id
    /\ Len(conversations[1].messages) = 1
    /\ Len(conversations[2].messages) > 1


(***************************************************************************)
(* C16. The input text is at most 500 characters long in every reachable   *)
(* state, however it was set: typing or pasting, clearing on submit,       *)
(* re-population from a clicked follow-up question.                        *)
(***************************************************************************)
C16_InputAtMost500 == Len(inputValue) <= InputMax


(***************************************************************************)
(* C17. The list shown for a search text is exactly the conversations, in  *)
(* list order, whose title or preview contains the search text as a        *)
(* substring, letters compared without regard to case; an empty search     *)
(* text shows every conversation.                                          *)
(***************************************************************************)
C17_Char(s, n) == SubSeq(s, n, n)

\* a and b are the same character, or the two cases of the same letter
C17_SameLetter(a, b) ==
    \/ a = b
    \/ \E n \in 1..Len(UpperLetters) :
          {a, b} = {C17_Char(UpperLetters, n), C17_Char(LowerLetters, n)}

C17_Contains(hay, needle) ==
    \E off \in 0..(Len(hay) - Len(needle)) :
       \A n \in 1..Len(needle) :
          C17_SameLetter(C17_Char(hay, off + n), C17_Char(needle, n))

C17_Matches(conv) ==
    \/ searchQuery = ""
    \/ C17_Contains(conv.title, searchQuery)
    \/ C17_Contains(conv.preview, searchQuery)

C17_ShownAreTheMatches ==
    filteredConversations = SelectSeq(conversations, C17_Matches)

\* An upper-case search text shows one of two conversations: the one
\* titled "Pricing".
C17_Witness ==
    /\ searchQuery = "PRICING"
    /\ Len(conversations) = 2
    /\ Len(filteredConversations) = 1
    /\ filteredConversations[1].title = "Pricing"


(***************************************************************************)
(* C18. The fallback message's content follows the kind of failure: the    *)
(* payload's error string when it carries a non-empty one, the generic     *)
(* 'Sorry, I encountered an error. Please try again.' when it carries      *)
(* none, 'Sorry, something went wrong. Please try again.' when the call    *)
(* throws or rejects.                                                      *)
(***************************************************************************)
C18_Expected(o) ==
    CASE o.settle = "reject" -> "Sorry, something went wrong. Please try again."
      [] o.settle = "resolve" /\ "error" \in DOMAIN o /\ o.error # "" -> o.error
      [] OTHER -> "Sorry, I encountered an error. Please try again."

C18_FallbackContent ==
    [][\A n \in DOMAIN calls, o \in AgentOutcomes :
          ~IsSuccess(o) /\ Settle(n, o) =>
             \E i \in WithId(calls[n].activeConversationId) :
                /\ Len(conversations'[i].messages) = Len(conversations[i].messages) + 1
                /\ Last(conversations'[i].messages).content = C18_Expected(o)]_vars

\* A conversation ends with the error string the service supplied.
C18_Witness ==
    \E i \in DOMAIN conversations :
       /\ Len(conversations[i].messages) > 2
       /\ Last(conversations[i].messages).role = "agent"
       /\ Last(conversations[i].messages).content = "Rate limit exceeded"

(***************************************************************************)
(* C19. The reply (or fallback message) of a submit is appended to the     *)
(* conversation that was active when the submit was made, also when the    *)
(* user has selected or created another conversation meanwhile; no other   *)
(* conversation, the one active at completion included, changes.           *)
(***************************************************************************)
C19_ReplyGoesToOrigin ==
    [][\A n \in DOMAIN calls, o \in AgentOutcomes :
          Settle(n, o) =>
             \E i \in WithId(calls[n].activeConversationId) :
                /\ conversations'[i].messages =
                      Append(conversations[i].messages, ReplyMessage(o))
                /\ \A k \in DOMAIN conversations :
                      k # i => conversations'[k] = conversations[k]
                /\ activeConversationId' = activeConversationId]_vars

\* A reply has arrived in the second conversation after the first, shown
\* and still holding only its welcome message, was created.
C19_Witness ==
    /\ Len(conversations) = 2
    /\ activeConversationId = conversations[1].id
    /\ Len(conversations[1].messages) = 1
    /\ Len(conversations[2].messages) = 3
    /\ Last(conversations[2].messages).role = "agent"
    /\ Last(conversations[2].messages).timestamp > conversations[1].timestamp
    /\ calls = <<>>

(***************************************************************************)
(* C20. In every conversation the number of agent messages after the       *)
(* welcome message is at most the number of user messages, and the two     *)
(* are equal when no call that originates from the conversation is         *)
(* pending.                                                                *)
(***************************************************************************)
C20_Replies(conv) ==
    Cardinality({j \in DOMAIN conv.messages : j > 1 /\ conv.messages[j].role = "agent"})

C20_Pending(conv) ==
    Cardinality({n \in DOMAIN calls : calls[n].activeConversationId = conv.id})

C20_RepliesMatchSubmits ==
    \A i \in DOMAIN conversations :
       /\ conversations[i].messages[1].role = "agent"
       /\ C20_Replies(conversations[i]) <= Cardinality(UserIndexes(conversations[i]))
       /\ C20_Pending(conversations[i]) = 0 =>
             C20_Replies(conversations[i]) = Cardinality(UserIndexes(conversations[i]))

\* Two submits were made in a conversation; one reply has arrived and the
\* other call is pending.
C20_Witness ==
    \E i \in DOMAIN conversations :
       /\ Cardinality(UserIndexes(conversations[i])) = 2
       /\ C20_Replies(conversations[i]) = 1
       /\ C20_Pending(conversations[i]) = 1


(***************************************************************************)
(* C21. Once startup has completed, the active conversation identifier     *)
(* names a conversation of the list, whatever New Chat, selection, submit  *)
(* and call-completion events follow.                                      *)
(***************************************************************************)
C21_ActiveIsInList ==
    phase = "ready" => WithId(activeConversationId) # {}

\* The same, for every startup but the one that a malformed stored item
\* leaves with an empty list (C10): storage keeps that item until the first
\* conversation is created.
C21_ActiveIsInListAfterLoad ==
    phase = "ready" /\ ~(C10_Malformed(storage) /\ conversations = <<>>)
       => WithId(activeConversationId) # {}


(***************************************************************************)
(* C22. Message identifiers are unique within a conversation: no two       *)
(* messages of one conversation have the same id, also when two messages   *)
(* are created at the same clock reading.                                  *)
(***************************************************************************)
C22_UniqueMessageIds ==
    \A i \in DOMAIN conversations :
       \A j, k \in DOMAIN conversations[i].messages :
          j # k => conversations[i].messages[j].id # conversations[i].messages[k].id

\* What the ids do tell apart: two messages of a conversation that share an
\* id have the same role and were created at the same clock reading.
C22_SameIdOnlyAtSameReading ==
    \A i \in DOMAIN conversations :
       \A j, k \in DOMAIN conversations[i].messages :
          conversations[i].messages[j].id = conversations[i].messages[k].id
             => /\ conversations[i].messages[j].role = conversations[i].messages[k].role
                /\ conversations[i].messages[j].timestamp = conversations[i].messages[k].timestamp

====
